---- MODULE Spec2Model ----
(***************************************************************************)
(* Model of the graph-growth engine of BlockGraph: grow_df (src/utils.py)  *)
(* and the query builders it calls (src/sql_queries.py).                   *)
(*                                                                         *)
(* Python values are modelled as follows.                                  *)
(*   str        a tuple of one-character strings, so that slicing,         *)
(*              startswith and lower() are computed and not assumed        *)
(*   None       NULL                                                       *)
(*   dict       a function from its keys to its values                     *)
(*   list       when the code only tests membership in it (seed_addresses, *)
(*              nogrow_addresses, contracts, spam_symbols): the set of its *)
(*              elements                                                   *)
(*   DataFrame  the sequence of its rows, each row a record                *)
(*   object identity (which list or dict a name is bound to) is kept in a  *)
(*   heap, so that an in-place update is seen through every alias          *)
(***************************************************************************)
EXTENDS Integers, Sequences, FiniteSets, TLC

VARIABLES
  seed_addresses,      \* caller: frontier to pass to the next call
  nogrow_addresses,    \* caller: exclusion list to pass to the next call
  address_label_dict,  \* caller: label map returned by the last call
  label_address_dict,  \* caller: reverse label map returned by the last call
  contracts,           \* caller: contract list returned by the last call
  df,                  \* caller: dataframe returned by the last call
  options,             \* caller: drop_spam, stop_at_label, spam_symbols
  defaults,            \* the default-argument objects of grow_df (def time)
  ledger,              \* the rows the ledger's tables can answer with
  queried,             \* history: addresses queried by earlier calls
  last,                \* history: the last call (arguments, answers, result)
  steps,               \* history: number of calls made
  delivered            \* history: number of rows the ledger has returned

vars == <<seed_addresses, nogrow_addresses, address_label_dict,
          label_address_dict, contracts, df, options, defaults, ledger,
          queried,
          last, steps, delivered>>

(* Bound of the model: the grow_df calls of one run. *)
MaxSteps == 3

(* Bound of the model: the rows the ledger returns in one run, over all the *)
(* queries of all its calls.                                               *)
MaxRows == 4

-----------------------------------------------------------------------------
(* Strings *)

NULL == <<"None">>

LowerChar(c) ==
  CASE c = "A" -> "a" [] c = "B" -> "b" [] c = "C" -> "c"
    [] c = "D" -> "d" [] c = "E" -> "e" [] c = "F" -> "f"
    [] c = "X" -> "x" [] OTHER -> c

\* s.lower()
Lower(s) == [i \in 1..Len(s) |-> LowerChar(s[i])]

Min(a, b) == IF a < b THEN a ELSE b
Max(a, b) == IF a > b THEN a ELSE b

\* label.startswith('0x')
StartsWith0x(s) == Len(s) >= 2 /\ s[1] = "0" /\ s[2] = "x"

\* x[0:3] + x[-3:]
ShortLabel(x) ==
  SubSeq(x, 1, Min(3, Len(x))) \o SubSeq(x, Max(1, Len(x) - 2), Len(x))

Range(s) == {s[i] : i \in 1..Len(s)}

-----------------------------------------------------------------------------
(* The ledger's data: the finite universe the answers are drawn from *)

A1 == <<"0", "x", "a", "1">>
B2 == <<"0", "x", "b", "2">>
C3 == <<"0", "x", "C", "3">>   \* stored by the ledger with an upper-case digit
Addresses == {A1, B2, C3}

ETH == <<"E", "T", "H">>
SPM == <<"S", "P", "M">>
USD == <<"U", "S", "D">>
BIN == <<"B", "i", "n">>

\* A row of the transfer query (the columns grow_df reads, and amount_usd).
Transfer(h, sym, dec, usd, from, to) ==
  [tx_hash |-> h, symbol |-> sym, decimals |-> dec, amount_usd |-> usd,
   from_address |-> from, to_address |-> to]

TransferRows ==
  { Transfer("h1", ETH, 18, 100, A1, B2),
    Transfer("h1", ETH, 18, 200, A1, B2),   \* h1 again, another amount_usd
    Transfer("h2", ETH, 18, 50, B2, C3),
    Transfer("h3", NULL, 18, 40, B2, A1),   \* no token symbol
    Transfer("h4", SPM, 18, 30, A1, C3),    \* a known spam symbol
    Transfer("h5", ETH, 0, 20, A1, B2) }    \* a zero-decimal token

\* Rows of the contract query (symbol as label) and of the label query.
ContractRows ==
  { [address |-> B2, label |-> USD],
    [address |-> B2, label |-> NULL],
    [address |-> C3, label |-> NULL] }

LabelRows ==
  { [address |-> A1, label |-> BIN],
    [address |-> B2, label |-> BIN] }

-----------------------------------------------------------------------------
(* src/sql_queries.py *)

\* The text rendered after IN: a parenthesised string for one address, the
\* repr of a Python tuple otherwise ("()" for no address at all).
to_lowercase_tuple(strings) ==
  LET lowercase_strings == {Lower(s) : s \in strings}
  IN  IF Cardinality(strings) = 1
        THEN [form |-> "string", members |-> lowercase_strings]
        ELSE [form |-> "tuple", members |-> lowercase_strings]

sql_graph_ethereum(addresses, limit, rank_by) ==
  [table |-> "transfers", in |-> to_lowercase_tuple(addresses),
   limit |-> limit, rank_by |-> rank_by]

sql_labels_ethereum(addresses) ==
  [table |-> "labels", in |-> to_lowercase_tuple(addresses)]

sql_contracts_ethereum(addresses) ==
  [table |-> "contracts", in |-> to_lowercase_tuple(addresses)]

-----------------------------------------------------------------------------
(* sdk.query: what the ledger client can answer to a query *)

Error == [status |-> "error", exception |-> "QueryError"] \* the client raises
NoRecords == [status |-> "none"]                 \* dict(result)["records"] == None
Records(rows) == [status |-> "rows", records |-> rows]
NotAsked == [status |-> "not asked"]

\* The sequences of at most n distinct rows of S.
RECURSIVE RowSeqs(_, _)
RowSeqs(S, n) ==
  IF n = 0 THEN {<<>>}
  ELSE LET shorter == RowSeqs(S, n - 1)
       IN  shorter \cup
           UNION { {Append(s, r) : r \in S \ Range(s)}
                   : s \in {t \in shorter : Len(t) = n - 1} }

\* WHERE lower(from_address) IN ... / lower(to_address) IN ...
TransferSelected(row, query) ==
  \/ Lower(row.from_address) \in query.in.members
  \/ Lower(row.to_address) \in query.in.members

\* WHERE lower(address) IN ...
RowSelected(row, query) == Lower(row.address) \in query.in.members

\* ORDER BY amount_usd DESC: the orders the rows of S can come in
RECURSIVE Ranked(_)
Ranked(S) ==
  IF S = {} THEN {<<>>}
  ELSE UNION { {<<r>> \o s : s \in Ranked(S \ {r})}
               : r \in {x \in S : \A y \in S : x.amount_usd >= y.amount_usd} }

\* LIMIT
Limited(rows, limit) == SubSeq(rows, 1, Min(Len(rows), limit))

\* The rows of the ledger a query selects.
Selected(query) ==
  IF query.table = "transfers"
    THEN {r \in ledger.transfers : TransferSelected(r, query)}
    ELSE {r \in ledger[query.table] : RowSelected(r, query)}

\* The answers the ledger client can give to one query, of at most n rows,
\* while the ledger's tables change and the client can fail: it raises, or it
\* has no records, or it has some of the rows the query selects.
QueryResults(query, n) ==
  {Error, NoRecords} \cup
  IF query.table = "transfers"
    THEN { Records(Limited(t, query.limit)) :
             t \in UNION { Ranked(S) :
                            S \in {T \in SUBSET Selected(query) :
                                     T # {} /\ Cardinality(T) <= n} } }
    ELSE { Records(t) : t \in RowSeqs(Selected(query), n) \ {<<>>} }

\* The answers of a client that does not fail, on tables that do not change:
\* no records when the query selects no row, and all the rows it selects
\* otherwise (n is not used: no row is left out).
ExactResults(query, n) ==
  LET all == Selected(query)
  IN  IF all = {} THEN {NoRecords}
      ELSE IF query.table = "transfers"
        THEN { Records(Limited(t, query.limit)) : t \in Ranked(all) }
        ELSE { Records(t) :
                 t \in {s \in RowSeqs(all, Cardinality(all)) :
                          Len(s) = Cardinality(all)} }

-----------------------------------------------------------------------------
(* src/utils.py: the pieces of grow_df *)

EmptyDict == [k \in {} |-> NULL]

\* d.update(e)
DictUpdate(d, e) ==
  [k \in DOMAIN d \cup DOMAIN e |-> IF k \in DOMAIN e THEN e[k] ELSE d[k]]

\* {row['address']: row['label'] for index, row in rows.iterrows()}
DictOfRows(rows) ==
  [k \in {rows[i].address : i \in 1..Len(rows)} |->
     rows[CHOOSE i \in 1..Len(rows) :
            /\ rows[i].address = k
            /\ \A j \in 1..Len(rows) : j > i => rows[j].address # k].label]

\* line 41: seed_addresses without the nogrow_addresses
FilterSeeds(seeds, nogrow) == {x \in seeds : x \notin nogrow}

\* Mutant: rows without a symbol are dropped whatever drop_spam is.
DropNullSymbolsAlways(rows, drop_spam) ==
  SelectSeq(rows, LAMBDA r : r.symbol # NULL)

\* lines 55-56: df_new[~df_new.symbol.isnull()] when drop_spam
DropNullSymbols(rows, drop_spam) ==
  IF drop_spam THEN SelectSeq(rows, LAMBDA r : r.symbol # NULL) ELSE rows

\* line 59: df_new[~df_new.symbol.isin(spam_symbols)]
DropSpamSymbols(rows, spam_symbols) ==
  SelectSeq(rows, LAMBDA r : r.symbol \notin spam_symbols)

\* line 61: df_new[df_new.decimals != 0]
DropZeroDecimals(rows) == SelectSeq(rows, LAMBDA r : r.decimals # 0)

\* lines 55-61
FilterRows(rows, opt) ==
  DropZeroDecimals(DropSpamSymbols(DropNullSymbols(rows, opt.drop_spam),
                                   opt.spam_symbols))

\* lines 64-65: the unique from_ and to_ addresses
NewAddresses(rows) ==
  {rows[i].from_address : i \in 1..Len(rows)} \cup
  {rows[i].to_address : i \in 1..Len(rows)}

\* Mutant: the labels of all the contract rows, the null ones too.
ContractLabelsWithNull(rows) == DictOfRows(rows)

\* line 79: the labels of the contract rows that have one
ContractLabels(rows) == DictOfRows(SelectSeq(rows, LAMBDA r : r.label # NULL))

\* Mutant: the input contracts are not appended.
ContractsNewNotExtended(rows, old_contracts) ==
  {rows[i].address : i \in 1..Len(rows)}

\* lines 81-82: list(set(contracts_new['address'])), then .extend(contracts)
ContractsNew(rows, old_contracts) ==
  {rows[i].address : i \in 1..Len(rows)} \cup old_contracts

\* line 93: the labels of the label rows
LabelsNew(rows) == DictOfRows(rows)

\* Mutant: no short label is made.
ShortLabelsForNone(new_addresses, labelled) ==
  [x \in {} |-> ShortLabel(x)]

\* line 96: short labels for the new addresses that have no label yet
ShortLabels(new_addresses, labelled) ==
  [x \in {y \in new_addresses : y \notin labelled} |-> ShortLabel(x)]

\* Mutant: the previous map is updated with the new labels.
UpdateWithPreviousOverwritten(new_dict, previous_dict) ==
  DictUpdate(previous_dict, new_dict)

\* line 99: address_label_dict_new.update(address_label_dict)
UpdateWithPrevious(new_dict, previous_dict) == DictUpdate(new_dict, previous_dict)

\* line 104: DataFrame.drop_duplicates(): of rows equal in every column,
\* the first stays
DropDuplicates(rows) ==
  LET kept[i \in 0..Len(rows)] ==
        IF i = 0 THEN <<>>
        ELSE IF \E j \in 1..(i - 1) : rows[j] = rows[i]
               THEN kept[i - 1]
               ELSE Append(kept[i - 1], rows[i])
  IN  kept[Len(rows)]

\* lines 102-104: pd.concat([df, df_new]).drop_duplicates()
ConcatAndDedup(old_df, new_rows) == DropDuplicates(old_df \o new_rows)

\* Mutant: a label keeps only the last address it was given.
LabelAddressDictOfOne(label_dict) ==
  [l \in {label_dict[a] : a \in DOMAIN label_dict} |->
     {CHOOSE a \in DOMAIN label_dict : label_dict[a] = l}]

\* lines 108-113: label -> addresses
LabelAddressDict(label_dict) ==
  [l \in {label_dict[a] : a \in DOMAIN label_dict} |->
     {a \in DOMAIN label_dict : label_dict[a] = l}]

\* Mutant: every key, whatever stop_at_label is.
AddsWhateverLabel(label_dict, stop_at_label) == DOMAIN label_dict

\* lines 119-122
Adds(label_dict, stop_at_label) ==
  IF stop_at_label
    THEN {a \in DOMAIN label_dict : StartsWith0x(label_dict[a])}
    ELSE DOMAIN label_dict

\* lines 124-125: adds not queried in this call and not in nogrow_addresses
NextSeeds(adds, seed, nogrow) ==
  {a \in {b \in adds : b \notin seed} : a \notin nogrow}

\* line 128: the exclusion list that is returned
ReturnedNogrow(seed, nogrow) == nogrow

\* Mutant: address_label_dict_new = address_label_dict, no new dict.
LabelDictObjectAliased == "address_label_dict"

\* line 68: the object address_label_dict_new is bound to (a new dict)
NewLabelDictObject == "address_label_dict_new"

\* Mutant: the new contracts are added to the caller's list.
ContractsObjectAliased == "contracts"

\* line 81: the object contracts_new is bound to (a new list)
NewContractsObject == "contracts_new"

\* lines 45, 71, 86: sdk.query raises, and nothing in grow_df catches it
QueryRaises(result) == result.status = "error"

\* lines 46, 72, 87: dict(result)["records"] == None
RecordsIsNone(result) == result.status = "none"

\* lines 53, 77, 91: the columns of pd.json_normalize(result.records), the
\* keys of the rows
Columns(records) == UNION {DOMAIN records[i] : i \in 1..Len(records)}

\* lines 56-64 (df_new.symbol, .decimals, .from_address, .to_address) and
\* lines 79, 81, 93 (row['address'], row['label']): the frame made of the
\* rows has not all the columns the code reads
ColumnMissing(result, read) ==
  result.status = "rows" /\ \E c \in read : c \notin Columns(result.records)

-----------------------------------------------------------------------------
(* src/utils.py: grow_df *)

CallerObjects ==
  {"seed_addresses", "nogrow_addresses", "address_label_dict", "contracts", "df"}

\* The objects at entry: the five the caller passed, and the ones grow_df
\* creates, still empty.
HeapAtEntry(args) ==
  [seed_addresses |-> args.seed_addresses,
   nogrow_addresses |-> args.nogrow_addresses,
   address_label_dict |-> args.address_label_dict,
   contracts |-> args.contracts,
   df |-> args.df,
   address_label_dict_new |-> EmptyDict,
   contracts_new |-> {},
   df_new |-> <<>>]

\* An exception leaves grow_df: no tuple is returned.
Raise(exception, queries, heap) ==
  [outcome |-> "raised", exception |-> exception, queries |-> queries,
   heap |-> [o \in CallerObjects |-> heap[o]]]

\* The element of a set of one element: {Body(x) : x \in {v}} holds Body of
\* the value v, computed once, as the statements after an assignment see it.
The(S) == CHOOSE x \in S : TRUE

\* lines 107-128, with address_label_dict_new, contracts_new and df_new bound
\* to the objects dict_obj, contracts_obj and df_obj
Finish(seed, queries, heap, dict_obj, contracts_obj, df_obj, new_rows, new_addresses, opt) ==
  IF opt.stop_at_label /\ \E a \in DOMAIN heap[dict_obj] : heap[dict_obj][a] = NULL
    THEN Raise("AttributeError", queries, heap)   \* None.startswith, line 120
    ELSE
      [outcome |-> "returned", queries |-> queries,
       heap |-> [o \in CallerObjects |-> heap[o]],
       seed |-> seed, new_rows |-> new_rows, new_addresses |-> new_addresses,
       objects |-> [address_label_dict |-> dict_obj,
                    contracts |-> contracts_obj, df |-> df_obj],
       ret |-> [seed_addresses |->
                  NextSeeds(Adds(heap[dict_obj], opt.stop_at_label),
                            seed, heap.nogrow_addresses),
                nogrow_addresses |->
                  ReturnedNogrow(seed, heap.nogrow_addresses),
                address_label_dict |-> heap[dict_obj],
                label_address_dict |-> LabelAddressDict(heap[dict_obj]),
                contracts |-> heap[contracts_obj],
                df |-> heap[df_obj]]]

\* The object contracts_new names: the caller's list (line 74) or a new one
\* (line 81).
ContractsNewObject(sdk) ==
  IF RecordsIsNone(sdk.contracts) THEN "contracts" ELSE NewContractsObject

\* Mutant: the label query is issued before the contract query.
QueriesLabelsFirst(q1, new_addresses) ==
  <<q1, sql_labels_ethereum(new_addresses), sql_contracts_ethereum(new_addresses)>>

\* lines 45, 71, 86: the queries of a call that reaches the label query
Queries(q1, new_addresses) ==
  <<q1, sql_contracts_ethereum(new_addresses), sql_labels_ethereum(new_addresses)>>

\* line 96: short labels for the new addresses that have no label
Line96(heap, new_addresses) ==
  [heap EXCEPT ![NewLabelDictObject] =
                  DictUpdate(@, ShortLabels(new_addresses, DOMAIN @))]

\* line 99: address_label_dict_new.update(address_label_dict)
Line99(heap) ==
  [heap EXCEPT ![NewLabelDictObject] =
                  UpdateWithPrevious(@, heap.address_label_dict)]

\* lines 102-104: df_new = pd.concat([df, df_new]).drop_duplicates()
Lines102to104(heap, new_rows) ==
  [heap EXCEPT !.df_new = ConcatAndDedup(heap.df, new_rows)]

\* lines 96-128, after the label query
GrowMerge(seed, q1, heap3, opt, sdk, new_rows, new_addresses) ==
  The({ The({ The({
    Finish(seed, Queries(q1, new_addresses), heap6, NewLabelDictObject,
           ContractsNewObject(sdk), "df_new", new_rows, new_addresses, opt)
    : heap6 \in {Lines102to104(heap5, new_rows)} })
    : heap5 \in {Line99(heap4)} })
    : heap4 \in {Line96(heap3, new_addresses)} })

\* lines 86-93: the label query, whose labels replace those of the contracts
GrowLabels(seed, q1, heap2, opt, sdk, new_rows, new_addresses) ==
  IF QueryRaises(sdk.labels)
    THEN Raise(sdk.labels.exception, Queries(q1, new_addresses), heap2)
  ELSE IF ColumnMissing(sdk.labels, {"address", "label"})
    THEN Raise("KeyError", Queries(q1, new_addresses), heap2)      \* line 93
    ELSE The({ GrowMerge(seed, q1, heap3, opt, sdk, new_rows, new_addresses)
               : heap3 \in {IF RecordsIsNone(sdk.labels)
                               THEN heap2                               \* 88
                               ELSE [heap2 EXCEPT                       \* 91-93
                                       ![NewLabelDictObject] =
                                          DictUpdate(@, LabelsNew(sdk.labels.records))]} })

\* lines 68-82: the contract query, the labels and the addresses of contracts
GrowContracts(seed, q1, heap0, opt, sdk, new_rows, new_addresses) ==
  IF QueryRaises(sdk.contracts)
    THEN Raise(sdk.contracts.exception,
               <<q1, sql_contracts_ethereum(new_addresses)>>, heap0)
  ELSE IF ColumnMissing(sdk.contracts, {"address", "label"})
    THEN Raise("KeyError",                                      \* lines 79, 81
               <<q1, sql_contracts_ethereum(new_addresses)>>, heap0)
    ELSE The({ GrowLabels(seed, q1, heap2, opt, sdk, new_rows, new_addresses)
               : heap2 \in {IF RecordsIsNone(sdk.contracts)
                               THEN heap0                               \* 74
                               ELSE [heap0 EXCEPT                       \* 77-82
                                       ![NewLabelDictObject] =
                                          DictUpdate(@, ContractLabels(sdk.contracts.records)),
                                       ![ContractsNewObject(sdk)] =
                                          ContractsNew(sdk.contracts.records,
                                                       heap0.contracts)]} })

\* lines 52-65: the transfer query returned rows
Grow(seed, q1, heap0, opt, sdk) ==
  The({ The({ GrowContracts(seed, q1, heap0, opt, sdk, new_rows, new_addresses)
              : new_addresses \in {NewAddresses(new_rows)} })
        : new_rows \in {FilterRows(sdk.transfers.records, opt)} })

\* grow_df(seed_addresses, nogrow_addresses, sdk, address_label_dict,
\*         contracts, spam_symbols, df, drop_spam, limit_connections, rank_by,
\*         stop_at_label), with sdk the answers its queries get
grow_df(args, opt, sdk) ==
  LET seed == FilterSeeds(args.seed_addresses, args.nogrow_addresses)
      q1 == sql_graph_ethereum(seed, opt.limit_connections, opt.rank_by)
      heap0 == HeapAtEntry(args)
  IN  IF QueryRaises(sdk.transfers)
        THEN Raise(sdk.transfers.exception, <<q1>>, heap0)
      ELSE IF RecordsIsNone(sdk.transfers)
        THEN Finish(seed, <<q1>>, heap0, "address_label_dict", "contracts", "df",
                    <<>>, {}, opt)
      ELSE IF ColumnMissing(sdk.transfers, {"symbol", "decimals",
                                            "from_address", "to_address"})
        THEN Raise("AttributeError", <<q1>>, heap0)       \* lines 56-64
      ELSE Grow(seed, q1, heap0, opt, sdk)

-----------------------------------------------------------------------------
(* The caller: a loop that feeds each call's results into the next call *)

\* line 17
DefaultLimitConnections == 500

\* lines 12, 13, 15: the default objects, made once, when grow_df is defined
DefaultObjects == [address_label_dict |-> EmptyDict, contracts |-> {}, df |-> <<>>]

NoCall == [call |-> "none", result |-> [outcome |-> "none"]]

\* The rows an answer holds.
RowCount(result) == IF result.status = "rows" THEN Len(result.records) ELSE 0

\* What a client answers to a query: anything it may ("any"), or the rows the
\* ledger holds and no error ("exact").
SdkResults(client, query, n) ==
  IF client = "exact" THEN ExactResults(query, n) ELSE QueryResults(query, n)

\* The answers the ledger client can give to the queries of one call, of at
\* most n rows in all, each query answered by one of
\* SdkResults(client, query, rows left).
SdkAnswers(args, opt, n, client) ==
  LET seed == FilterSeeds(args.seed_addresses, args.nogrow_addresses)
      q1 == sql_graph_ethereum(seed, opt.limit_connections, opt.rank_by)
      Later(t) ==
        LET new_addresses == NewAddresses(FilterRows(t.records, opt))
            q2 == sql_contracts_ethereum(new_addresses)
            q3 == sql_labels_ethereum(new_addresses)
        IN  UNION { IF QueryRaises(c)
                      THEN {[transfers |-> t, contracts |-> c, labels |-> NotAsked]}
                      ELSE {[transfers |-> t, contracts |-> c, labels |-> l] :
                              l \in SdkResults(client, q3, n - RowCount(t) - RowCount(c))}
                    : c \in SdkResults(client, q2, n - RowCount(t)) }
  IN  UNION { IF t.status = "rows"
                THEN Later(t)
                ELSE {[transfers |-> t, contracts |-> NotAsked, labels |-> NotAsked]}
              : t \in SdkResults(client, q1, n) }

\* The seeds and the exclusions a run starts from.
SeedChoices == {{A1}, {A1, C3}}
NogrowChoices == {{}, {A1}}

Init ==
  /\ seed_addresses \in SeedChoices
  /\ nogrow_addresses \in NogrowChoices
  /\ address_label_dict = EmptyDict
  /\ label_address_dict = EmptyDict
  /\ contracts = {}
  /\ df = <<>>
  /\ options \in [drop_spam : BOOLEAN, stop_at_label : BOOLEAN,
                  spam_symbols : {{SPM}},
                  limit_connections : {DefaultLimitConnections},
                  rank_by : {"amount_usd"}]
  /\ defaults = DefaultObjects
  /\ ledger = [transfers |-> TransferRows, contracts |-> ContractRows,
               labels |-> LabelRows]
  /\ queried = {}
  /\ last = NoCall
  /\ steps = 0
  /\ delivered = 0

\* What one call of grow_df does to the caller's variables.
Call(kind, args, sdk) ==
  \E result \in {grow_df(args, options, sdk)} :
      /\ last' = [call |-> kind, args |-> args, sdk |-> sdk, result |-> result,
                  queried_before |-> queried, defaults_before |-> defaults]
      /\ queried' = queried \cup FilterSeeds(args.seed_addresses, args.nogrow_addresses)
      /\ steps' = Min(MaxSteps, steps + 1)
      /\ delivered' = Min(MaxRows, delivered + RowCount(sdk.transfers)
                                   + RowCount(sdk.contracts) + RowCount(sdk.labels))
      /\ defaults' = IF kind = "defaults"
                       THEN [o \in DOMAIN defaults |-> result.heap[o]]
                       ELSE defaults
      /\ IF result.outcome = "returned"
           THEN /\ seed_addresses' = result.ret.seed_addresses
                /\ nogrow_addresses' = result.ret.nogrow_addresses
                /\ address_label_dict' = result.ret.address_label_dict
                /\ label_address_dict' = result.ret.label_address_dict
                /\ contracts' = result.ret.contracts
                /\ df' = result.ret.df
           ELSE /\ seed_addresses' = result.heap.seed_addresses
                /\ nogrow_addresses' = result.heap.nogrow_addresses
                /\ IF kind = "defaults"
                     THEN UNCHANGED <<address_label_dict, contracts, df>>
                     ELSE /\ address_label_dict' = result.heap.address_label_dict
                          /\ contracts' = result.heap.contracts
                          /\ df' = result.heap.df
                /\ UNCHANGED label_address_dict
      /\ UNCHANGED <<options, ledger>>

Called == last.call # "none"

\* The loop goes on: an exception that leaves grow_df ends the caller's run.
Running == steps < MaxSteps /\ last.result.outcome # "raised"

NothingYet == address_label_dict = EmptyDict /\ contracts = {} /\ df = <<>>

\* grow_df(seed_addresses, nogrow_addresses, sdk, ...options): the first call
\* of a run, with the default address_label_dict, contracts and df
FirstCall ==
  /\ Running
  /\ NothingYet
  /\ LET args == [seed_addresses |-> seed_addresses,
                  nogrow_addresses |-> nogrow_addresses,
                  address_label_dict |-> defaults.address_label_dict,
                  contracts |-> defaults.contracts,
                  df |-> defaults.df]
     IN  \E sdk \in SdkAnswers(args, options, MaxRows - delivered, "any") :
           Call("defaults", args, sdk)

\* grow_df(seed_addresses, nogrow_addresses, sdk, address_label_dict,
\*         contracts, ..., df, ...): a call on the results of the last one
NextCall ==
  /\ Running
  /\ ~NothingYet
  /\ LET args == [seed_addresses |-> seed_addresses,
                  nogrow_addresses |-> nogrow_addresses,
                  address_label_dict |-> address_label_dict,
                  contracts |-> contracts,
                  df |-> df]
     IN  \E sdk \in SdkAnswers(args, options, MaxRows - delivered, "any") :
           Call("threaded", args, sdk)

\* The caller starts another run, in the same process: new seeds and
\* exclusions, and nothing kept of the run before.
NewRun ==
  /\ Running
  /\ Called
  /\ seed_addresses' \in SeedChoices
  /\ nogrow_addresses' \in NogrowChoices
  /\ address_label_dict' = EmptyDict
  /\ label_address_dict' = EmptyDict
  /\ contracts' = {}
  /\ df' = <<>>
  /\ queried' = {}
  /\ last' = NoCall
  /\ UNCHANGED <<options, defaults, ledger, steps, delivered>>

Next == FirstCall \/ NextCall \/ NewRun

Spec == Init /\ [][Next]_vars

-----------------------------------------------------------------------------
(* The caller's loop over a finite ledger: grow until the frontier is empty *)

\* The finite ledgers: any transfers, at most one contract row per address,
\* any labels.
Ledgers ==
  [transfers : SUBSET TransferRows,
   contracts : {c \in SUBSET ContractRows :
                  \A r1, r2 \in c : r1.address = r2.address => r1 = r2},
   labels : SUBSET LabelRows]

LoopInit ==
  /\ seed_addresses \in SeedChoices
  /\ nogrow_addresses \in NogrowChoices
  /\ address_label_dict = EmptyDict
  /\ label_address_dict = EmptyDict
  /\ contracts = {}
  /\ df = <<>>
  /\ options \in [drop_spam : BOOLEAN, stop_at_label : {TRUE},
                  spam_symbols : {{SPM}},
                  limit_connections : {DefaultLimitConnections},
                  rank_by : {"amount_usd"}]
  /\ defaults = DefaultObjects
  /\ ledger \in Ledgers
  /\ queried = {}
  /\ last = NoCall
  /\ steps = 0
  /\ delivered = 0

\* One turn of the loop: while the frontier is not empty, call grow_df on
\* the results of the last call.
LoopCall ==
  /\ seed_addresses # {}
  /\ last.result.outcome # "raised"
  /\ LET args == [seed_addresses |-> seed_addresses,
                  nogrow_addresses |-> nogrow_addresses,
                  address_label_dict |-> address_label_dict,
                  contracts |-> contracts,
                  df |-> df]
     IN  \E sdk \in SdkAnswers(args, options, MaxRows, "exact") :
           Call("threaded", args, sdk)

LoopNext == LoopCall

\* The loop is synchronous: while its condition holds, the next call is made.
LoopSpec == LoopInit /\ [][LoopNext]_vars /\ WF_vars(LoopCall)

-----------------------------------------------------------------------------
(* A first call whose answers hold rows that lack a field *)

\* A row as the ledger client returns it when a field is absent.
Without(row, field) == [c \in DOMAIN row \ {field} |-> row[c]]

\* The rows a transfer query for 0xa1 can answer: a whole row, and the same
\* row without tx_hash, without symbol, without decimals.
RawTransferRows ==
  { Transfer("h1", ETH, 18, 100, A1, B2),
    Without(Transfer("h1", ETH, 18, 100, A1, B2), "tx_hash"),
    Without(Transfer("h1", ETH, 18, 100, A1, B2), "symbol"),
    Without(Transfer("h1", ETH, 18, 100, A1, B2), "decimals") }

RawContractRows ==
  { [address |-> B2, label |-> USD],
    Without([address |-> B2, label |-> USD], "label"),
    Without([address |-> B2, label |-> USD], "address") }

RawLabelRows ==
  { [address |-> B2, label |-> BIN],
    Without([address |-> B2, label |-> BIN], "label"),
    Without([address |-> B2, label |-> BIN], "address") }

\* The answers of one row (a field a row lacks is then a column the frame
\* lacks), or of no records, to the queries of a call: a query is asked if
\* the code gets to it.
RawAnswers(args, opt) ==
  LET seed == FilterSeeds(args.seed_addresses, args.nogrow_addresses)
      q1 == sql_graph_ethereum(seed, opt.limit_connections, opt.rank_by)
      Raw(S) == {NoRecords} \cup {Records(<<r>>) : r \in S}
      reads == {"symbol", "decimals", "from_address", "to_address"}
      keys == {"address", "label"}
  IN  UNION {
        IF t.status = "none" \/ ColumnMissing(t, reads)
          THEN {[transfers |-> t, contracts |-> NotAsked, labels |-> NotAsked]}
          ELSE UNION {
                 IF ColumnMissing(c, keys)
                   THEN {[transfers |-> t, contracts |-> c, labels |-> NotAsked]}
                   ELSE {[transfers |-> t, contracts |-> c, labels |-> l] :
                           l \in Raw(RawLabelRows)}
                 : c \in Raw(RawContractRows) }
        : t \in Raw({r \in RawTransferRows : TransferSelected(r, q1)}) }

\* grow_df(seed_addresses, nogrow_addresses, sdk, ...options): the first call
\* of a run, answered by a ledger whose rows can lack a field
RawCall ==
  /\ ~Called
  /\ LET args == [seed_addresses |-> seed_addresses,
                  nogrow_addresses |-> nogrow_addresses,
                  address_label_dict |-> defaults.address_label_dict,
                  contracts |-> defaults.contracts,
                  df |-> defaults.df]
     IN  \E sdk \in RawAnswers(args, options) : Call("defaults", args, sdk)

RawNext == RawCall

RawSpec == Init /\ [][RawNext]_vars

-----------------------------------------------------------------------------
(* Properties of a growth step, stated on the last call *)

Returned == last.result.outcome = "returned"
Raised == last.result.outcome = "raised"
TransferRowsReturned == last.sdk.transfers.status = "rows"

C2_OneRecordPerTxHash ==
  \A i, j \in 1..Len(df) : df[i].tx_hash = df[j].tx_hash => i = j

\* C3: an address that has label L in the label map passed in has label L in
\* the label map returned, whatever the label and contract queries answer.
C3_LabelStickiness ==
  Returned =>
    \A a \in DOMAIN last.args.address_label_dict :
      /\ a \in DOMAIN last.result.ret.address_label_dict
      /\ last.result.ret.address_label_dict[a] = last.args.address_label_dict[a]

\* A step whose label query answers another label for an address that had one.
C3_Witness ==
  /\ Returned
  /\ last.sdk.labels.status = "rows"
  /\ \E i \in 1..Len(last.sdk.labels.records) :
       LET row == last.sdk.labels.records[i]
       IN  /\ row.address \in DOMAIN last.args.address_label_dict
           /\ row.label # last.args.address_label_dict[row.address]

\* C4: the contract set returned contains the contract set passed in, and the
\* exclusion set returned contains the exclusion set passed in.
C4_Monotonicity ==
  Returned =>
    /\ last.args.contracts \subseteq last.result.ret.contracts
    /\ last.args.nogrow_addresses \subseteq last.result.ret.nogrow_addresses

\* A step with known contracts whose contract query answers other addresses.
C4_Witness ==
  /\ Returned
  /\ last.sdk.contracts.status = "rows"
  /\ last.args.nogrow_addresses # {}
  /\ \E c \in last.args.contracts :
       \A i \in 1..Len(last.sdk.contracts.records) :
         last.sdk.contracts.records[i].address # c

\* C5: over a finite ledger, with stop_at_label on, the loop that feeds each
\* step's results into the next step reaches a step that returns an empty
\* frontier.
C5_Convergence == <>(seed_addresses = {})

\* C6: no query is issued for an empty set of addresses.
C6_NoQueryWithoutAddresses ==
  Called =>
    \A i \in 1..Len(last.result.queries) :
      last.result.queries[i].in.members # {}

\* C7: when the transfer query has no records, the label map, the contract
\* set and the dataset returned are the ones passed in, and the exclusion set
\* returned is the one passed in plus the filtered frontier.
C7_NoRecordsAdvancesExclusions ==
  (Called /\ last.sdk.transfers.status = "none") =>
    /\ Returned
    /\ last.result.ret.address_label_dict = last.args.address_label_dict
    /\ last.result.ret.contracts = last.args.contracts
    /\ last.result.ret.df = last.args.df
    /\ last.result.ret.nogrow_addresses =
         last.args.nogrow_addresses \cup last.result.seed

\* The record filter of the specification.
PassesFilter(row, opt) ==
  /\ row.decimals # 0
  /\ row.symbol \notin opt.spam_symbols
  /\ (row.symbol # NULL \/ ~opt.drop_spam)

\* C8: a row the transfer query returns is merged into the dataset if and
\* only if its decimals are not 0, its symbol is no spam symbol, and it has a
\* symbol or drop_spam is off.
C8_RecordFilter ==
  (Returned /\ TransferRowsReturned) =>
    \A i \in 1..Len(last.sdk.transfers.records) :
      LET row == last.sdk.transfers.records[i]
      IN  /\ row \in Range(last.result.new_rows) <=> PassesFilter(row, options)
          /\ PassesFilter(row, options) => row \in Range(last.result.ret.df)
          /\ (row \in Range(last.result.ret.df) /\ ~PassesFilter(row, options))
               => row \in Range(last.args.df)

\* A row without symbol is kept with drop_spam off, next to a zero-decimal
\* row that is dropped.
C8_Witness ==
  /\ Returned /\ TransferRowsReturned
  /\ ~options.drop_spam
  /\ \E i, j \in 1..Len(last.sdk.transfers.records) :
       /\ last.sdk.transfers.records[i].symbol = NULL
       /\ last.sdk.transfers.records[i] \in Range(last.result.ret.df)
       /\ last.sdk.transfers.records[j].decimals = 0
       /\ last.sdk.transfers.records[j] \notin Range(last.result.ret.df)

\* C9: after grow_df returns, the five objects the caller passed hold the
\* values they held before the call, and the default objects are as made.
C9_Purity ==
  /\ Returned => \A o \in CallerObjects : last.result.heap[o] = last.args[o]
  /\ defaults = DefaultObjects

\* A second call on the default objects, which labels new addresses.
C9_Witness ==
  /\ Returned
  /\ last.call = "defaults"
  /\ steps >= 2
  /\ last.sdk.labels.status = "rows"
  /\ last.sdk.contracts.status = "rows"

\* C10: when a query of the step raises, the exception leaves grow_df as it
\* was raised, nothing is returned, no query is issued after or again, and
\* the caller's objects are as before the call.
C10_ClientFailure ==
  \A k \in 1..3 :
    (Called /\ <<last.sdk.transfers, last.sdk.contracts, last.sdk.labels>>[k].status
                 = "error") =>
      /\ Raised
      /\ last.result.exception =
           <<last.sdk.transfers, last.sdk.contracts, last.sdk.labels>>[k].exception
      /\ "ret" \notin DOMAIN last.result
      /\ Len(last.result.queries) = k
      /\ \A o \in CallerObjects : last.result.heap[o] = last.args[o]
      /\ seed_addresses = last.args.seed_addresses
      /\ nogrow_addresses = last.args.nogrow_addresses
      /\ last.call = "threaded" =>
           /\ address_label_dict = last.args.address_label_dict
           /\ contracts = last.args.contracts
           /\ df = last.args.df
      /\ defaults = last.defaults_before

\* The label query raises after the contract query answered rows, in a step
\* that was passed contracts.
C10_Witness ==
  /\ Raised
  /\ last.sdk.labels.status = "error"
  /\ last.sdk.contracts.status = "rows"
  /\ \E i \in 1..Len(last.sdk.contracts.records) :
       last.sdk.contracts.records[i].address \notin last.args.contracts

-----------------------------------------------------------------------------
(* Properties of the frontier, the labels and the dataset a step returns *)

\* C12: when the input frontier minus the input exclusion set is empty, the
\* step issues no query, returns the exclusion set, the label map, the
\* contract set and the dataset it was passed, and returns an empty frontier.
C12_ShortCircuit ==
  (Called /\ FilterSeeds(last.args.seed_addresses,
                         last.args.nogrow_addresses) = {}) =>
    /\ Returned
    /\ last.result.queries = <<>>
    /\ last.result.ret.nogrow_addresses = last.args.nogrow_addresses
    /\ last.result.ret.address_label_dict = last.args.address_label_dict
    /\ last.result.ret.contracts = last.args.contracts
    /\ last.result.ret.df = last.args.df
    /\ last.result.ret.seed_addresses = {}

\* C13: the frontier a step returns holds no address of the contract set it
\* returns, none of the exclusion set it returns, and none of the frontier
\* it has just queried.
C13_FrontierExclusions ==
  Returned =>
    \A a \in last.result.ret.seed_addresses :
      /\ a \notin last.result.ret.contracts
      /\ a \notin last.result.ret.nogrow_addresses
      /\ a \notin last.result.seed

\* C14: every address of the frontier a step returns is a key of the label
\* map it returns, and with stop_at_label on its label starts with '0x'
\* (with stop_at_label off, labelled addresses are in the frontier too).
C14_FrontierSynthetic ==
  Returned =>
    \A a \in last.result.ret.seed_addresses :
      /\ a \in DOMAIN last.result.ret.address_label_dict
      /\ options.stop_at_label =>
           StartsWith0x(last.result.ret.address_label_dict[a])

\* With stop_at_label on, a step returns a frontier, and leaves out of it an
\* address that has a real label and is neither queried nor excluded.
C14_Witness ==
  /\ Returned
  /\ options.stop_at_label
  /\ last.result.ret.seed_addresses # {}
  /\ \E a \in DOMAIN last.result.ret.address_label_dict :
       /\ ~StartsWith0x(last.result.ret.address_label_dict[a])
       /\ a \notin last.result.seed
       /\ a \notin last.args.nogrow_addresses

\* C14 as stated, for both values of stop_at_label: every address of the
\* frontier returned has a label that starts with '0x'.
C14_FrontierSyntheticForBoth ==
  Returned =>
    \A a \in last.result.ret.seed_addresses :
      /\ a \in DOMAIN last.result.ret.address_label_dict
      /\ StartsWith0x(last.result.ret.address_label_dict[a])

\* C15: with stop_at_label on, every address whose label in the label map
\* returned does not start with '0x' is in the exclusion set returned.
C15_RealLabelsExcluded ==
  (Returned /\ options.stop_at_label) =>
    \A a \in DOMAIN last.result.ret.address_label_dict :
      ~StartsWith0x(last.result.ret.address_label_dict[a])
        => a \in last.result.ret.nogrow_addresses

\* The from_ and to_ addresses of the rows of the transfer answer that pass
\* the record filter.
SurvivingEndpoints ==
  UNION { {last.sdk.transfers.records[i].from_address,
           last.sdk.transfers.records[i].to_address}
          : i \in {j \in 1..Len(last.sdk.transfers.records) :
                     PassesFilter(last.sdk.transfers.records[j], options)} }

\* The labels the rows of an answer give to address a.
LabelsFor(answer, a) ==
  IF answer.status = "rows"
    THEN {answer.records[i].label :
            i \in {j \in 1..Len(answer.records) : answer.records[j].address = a}}
    ELSE {}

\* Whether an answer has a row for address a.
HasRowFor(answer, a) ==
  answer.status = "rows" /\ \E i \in 1..Len(answer.records) :
                              answer.records[i].address = a

\* The first 3 and the last 3 characters of an address.
FirstAndLast3(a) == <<a[1], a[2], a[3], a[Len(a) - 2], a[Len(a) - 1], a[Len(a)]>>

\* C16: an endpoint of a surviving row that had no label gets the label of
\* its label row if there is one; else the label of its contract row that
\* has one; else the first 3 and last 3 characters of the address.
C16_LabelPrecedence ==
  (Returned /\ TransferRowsReturned) =>
    \A a \in SurvivingEndpoints :
      a \notin DOMAIN last.args.address_label_dict =>
        /\ a \in DOMAIN last.result.ret.address_label_dict
        /\ IF HasRowFor(last.sdk.labels, a)
             THEN last.result.ret.address_label_dict[a]
                    \in LabelsFor(last.sdk.labels, a)
           ELSE IF LabelsFor(last.sdk.contracts, a) \ {NULL} # {}
             THEN last.result.ret.address_label_dict[a]
                    \in LabelsFor(last.sdk.contracts, a) \ {NULL}
           ELSE last.result.ret.address_label_dict[a] = FirstAndLast3(a)

\* In one step an address gets its label from the label query although the
\* contract query has a label for it, and another address, whose contract
\* row has no label, gets the short label.
C16_Witness ==
  /\ Returned /\ TransferRowsReturned
  /\ \E a, b \in SurvivingEndpoints :
       /\ a \notin DOMAIN last.args.address_label_dict
       /\ HasRowFor(last.sdk.labels, a)
       /\ LabelsFor(last.sdk.contracts, a) \ {NULL} # {}
       /\ b \notin DOMAIN last.args.address_label_dict
       /\ ~HasRowFor(last.sdk.labels, b)
       /\ LabelsFor(last.sdk.contracts, b) = {NULL}

\* C17: every from_address and to_address of the accumulated dataset is a
\* key of the label map, after any sequence of steps from an empty map and
\* an empty dataset.
C17_LabelMapComplete ==
  \A i \in 1..Len(df) :
    /\ df[i].from_address \in DOMAIN address_label_dict
    /\ df[i].to_address \in DOMAIN address_label_dict

\* After two steps the dataset has rows of both, and an address that no
\* query labelled.
C17_Witness ==
  /\ Returned /\ TransferRowsReturned
  /\ steps >= 2
  /\ Len(df) > Len(last.args.df)
  /\ last.args.df # <<>>
  /\ \E a \in SurvivingEndpoints :
       /\ a \notin DOMAIN last.args.address_label_dict
       /\ ~HasRowFor(last.sdk.labels, a)
       /\ ~HasRowFor(last.sdk.contracts, a)

\* C18: when a surviving new row has the tx_hash of a row of the dataset
\* passed in, the dataset returned holds the new row and not the old one,
\* and every tx_hash of the dataset passed in is in the dataset returned.
C18_MergeKeepsNewest ==
  (Returned /\ TransferRowsReturned) =>
    /\ \A new \in Range(last.result.new_rows) :
         \A old \in Range(last.args.df) :
           (old.tx_hash = new.tx_hash /\ old # new) =>
             /\ new \in Range(last.result.ret.df)
             /\ old \notin Range(last.result.ret.df)
    /\ \A old \in Range(last.args.df) :
         \E row \in Range(last.result.ret.df) : row.tx_hash = old.tx_hash

\* C19: a step queries transfers, then contracts, then labels, each at most
\* once; contracts and labels only after the transfer query answered rows,
\* and for the endpoints of the surviving rows; the dataset is merged only
\* after both have answered.
C19_QueryOrder ==
  Called =>
    /\ Len(last.result.queries) \in 1..3
    /\ \A i \in 1..Len(last.result.queries) :
         last.result.queries[i].table = <<"transfers", "contracts", "labels">>[i]
    /\ Len(last.result.queries) >= 2 =>
         /\ TransferRowsReturned
         /\ \A i \in 2..Len(last.result.queries) :
              last.result.queries[i].in.members =
                {Lower(a) : a \in SurvivingEndpoints}
    /\ Len(last.result.queries) = 3 =>
         last.sdk.contracts.status \in {"rows", "none"}
    /\ (Returned /\ last.result.ret.df # last.args.df) =>
         /\ Len(last.result.queries) = 3
         /\ last.sdk.contracts.status \in {"rows", "none"}
         /\ last.sdk.labels.status \in {"rows", "none"}
    /\ Raised => df = last.args.df

\* A step that asks the three queries, after a filter that removed a row
\* and with it an address, and merges new rows.
C19_Witness ==
  /\ Returned /\ TransferRowsReturned
  /\ Len(last.result.queries) = 3
  /\ last.sdk.contracts.status = "rows"
  /\ last.sdk.labels.status = "rows"
  /\ last.result.ret.df # last.args.df
  /\ NewAddresses(last.sdk.transfers.records) # SurvivingEndpoints

\* C20: the reverse label map returned is the inverse of the label map
\* returned: a is listed under L exactly if the map gives L to a, and no
\* label has an empty list.
C20_ReverseMapInverse ==
  Returned =>
    /\ \A a \in DOMAIN last.result.ret.address_label_dict :
         /\ last.result.ret.address_label_dict[a]
              \in DOMAIN last.result.ret.label_address_dict
         /\ a \in last.result.ret.label_address_dict[
                    last.result.ret.address_label_dict[a]]
    /\ \A l \in DOMAIN last.result.ret.label_address_dict :
         /\ last.result.ret.label_address_dict[l] # {}
         /\ \A a \in last.result.ret.label_address_dict[l] :
              /\ a \in DOMAIN last.result.ret.address_label_dict
              /\ last.result.ret.address_label_dict[a] = l

\* Two addresses share a label, next to an address with a label of its own.
C20_Witness ==
  /\ Returned
  /\ \E l \in DOMAIN last.result.ret.label_address_dict :
       Cardinality(last.result.ret.label_address_dict[l]) >= 2
  /\ Cardinality(DOMAIN last.result.ret.label_address_dict) >= 2

\* The fields of the rows of the three queries.
RequiredFields ==
  [transfers |-> {"tx_hash", "symbol", "decimals", "amount_usd",
                  "from_address", "to_address"},
   contracts |-> {"address", "label"},
   labels |-> {"address", "label"}]

\* The rows of the answer to the query of a table that lack a field.
MalformedRows(table) ==
  IF last.sdk[table].status = "rows"
    THEN {r \in Range(last.sdk[table].records) :
            ~(RequiredFields[table] \subseteq DOMAIN r)}
    ELSE {}

\* C11: when a row of an answer lacks a field, the step returns a state
\* tuple all the same, and the row is not in the dataset returned.
C11_MalformedRowDropped ==
  Called =>
    \A table \in {"transfers", "contracts", "labels"} :
      MalformedRows(table) # {} =>
        /\ Returned
        /\ \A r \in MalformedRows("transfers") :
             r \notin Range(last.result.ret.df)

====
